---- MODULE Spec2Model ----
(***************************************************************************)
(* The UART device model of the emulator (src/src/uart.rs): a transmit     *)
(* FIFO drained by the emulated clock, a one-byte receive latch filled     *)
(* lazily from the host, and the registers that steer them.                *)
(*                                                                         *)
(* The two host capabilities are modelled by what the device can observe   *)
(* of them: send_fn by the log of the bytes it was invoked with (sent),    *)
(* recv_fn by a queue of bytes the host has ready (host_rx): a poll takes  *)
(* the oldest byte, or yields None when the queue is empty.                *)
(***************************************************************************)
EXTENDS Integers, Sequences, FiniteSets, TLC

(***************************************************************************)
(* Program constants.                                                      *)
(***************************************************************************)
FCTL_FIFOEN == 1
FifoDepth == 16
ClocksPerBit == 16
BitsPerFrame == 9
ResetBrgDiv == 2
LSR_DR == 1
LSR_THRE == 32
LSR_TEMT == 64

(***************************************************************************)
(* Bounds of the model.                                                    *)
(***************************************************************************)
MaxOffers == 3
MaxFillOffers == 17
MaxTimeOffers == 2
MaxHostBytes == 2
MaxDivisor == 2
LongTicks == 1000
MaxMissing == 1
MemSize == 4
MaxLiveOffers == 2

TxBytes == {65, 66}
FillByte == CHOOSE b \in TxBytes : TRUE
RxBytes == {0, 90}
FctlValues == {0, 1, 2}
Divisors == 0 .. MaxDivisor
BytePeriod == ClocksPerBit * BitsPerFrame
Cycles == {0, BytePeriod, LongTicks}
AgeCap == MaxDivisor * BytePeriod
RunningCycles == {BytePeriod \div 3, BytePeriod}

VARIABLES
    tx_fifo,            \* Vec<u8>: bytes waiting to be sent, oldest first
    transmit_cooldown,  \* i32: clock cycles before a byte can be sent again
    rx_buf,             \* Option<u8>: the receive latch, <<>> or <<byte>>
    fctl,               \* FIFO control register
    brg_div,            \* baud rate divisor
    ier, lctl, spr,     \* registers no method of the device writes
    host_rx,            \* what recv_fn has to give, oldest first
    sent,               \* the bytes send_fn was invoked with, in order
    accepted,           \* the bytes send_byte queued (did not drop), in order
    offered,            \* number of send_byte calls so far
    arrived,            \* number of bytes the host made available so far
    headAge,            \* cycles passed to apply_ticks since the head of tx_fifo became the head
    headDue,            \* the cooldown loaded when the head became the head by a send, else 0
    last,               \* the last call: its name, argument, return value, what recv_fn yielded to it,
                        \* what it gave send_fn and, for a byte sent, how long it had been the head
                        \* and how long ago the byte before it was sent
    sinceSend,          \* cycles passed to apply_ticks since send_fn was last invoked, counted up to
                        \* the byte period of that send
    sendDiv,            \* brg_div when send_fn was last invoked, 0 before the first send
    yielded,            \* the bytes recv_fn yielded as Some, in order
    received,           \* the bytes receive_byte returned when it had one, in order
    map,                \* MosMap::from_symbol_map: the symbol table given, name -> address
    mos_map,            \* MosMap::from_symbol_map: the Result returned, once it has returned
    machine,            \* get_mos_path_string: the guest memory peek reads, address -> byte
    address,            \* get_mos_path_string: where the string starts
    ptr,                \* get_mos_path_string: the address to peek next
    s,                  \* get_mos_path_string: the bytes pushed so far
    peeked,             \* get_mos_path_string: the addresses peek was called with, in order
    path_pc             \* get_mos_path_string: "idle", "loop", "done", or "beyond" the modelled memory

vars == <<tx_fifo, transmit_cooldown, rx_buf, fctl, brg_div, ier, lctl, spr,
          host_rx, sent, accepted, offered, arrived, headAge, headDue, last,
          sinceSend, sendDiv, yielded, received,
          map, mos_map, machine, address, ptr, s, peeked, path_pc>>

None == <<>>
Some(b) == <<b>>

Max(a, b) == IF a >= b THEN a ELSE b
Min(a, b) == IF a <= b THEN a ELSE b

(***************************************************************************)
(* Bitwise and / or of two bytes, bit by bit.                              *)
(***************************************************************************)
RECURSIVE BitAnd(_, _)
BitAnd(a, b) ==
    IF a = 0 \/ b = 0 THEN 0
    ELSE (IF a % 2 = 1 /\ b % 2 = 1 THEN 1 ELSE 0) + 2 * BitAnd(a \div 2, b \div 2)

RECURSIVE BitOr(_, _)
BitOr(a, b) ==
    IF a = 0 THEN b
    ELSE IF b = 0 THEN a
    ELSE (IF a % 2 = 1 \/ b % 2 = 1 THEN 1 ELSE 0) + 2 * BitOr(a \div 2, b \div 2)

(***************************************************************************)
(* recv_fn: a non-blocking poll of the host.                               *)
(***************************************************************************)
recv_fn(host) ==
    IF host = <<>> THEN [val |-> None, host |-> host]
    ELSE [val |-> Some(Head(host)), host |-> Tail(host)]

(***************************************************************************)
(* Uart::apply_ticks, in its parts and as a whole.  The result carries the *)
(* bytes send_fn was invoked with during the call.                         *)
(***************************************************************************)
\* A clock that always counts at least one cycle.
CooldownAfterTicksAtLeastOne(cooldown, cycles) == Max(0, cooldown - Max(1, cycles))

\* A cooldown that runs down twice as fast as the clock.
CooldownAfterTicksDoubleSpeed(cooldown, cycles) == Max(0, cooldown - 2 * cycles)

CooldownAfterTicks(cooldown, cycles) == Max(0, cooldown - cycles)

\* A transmitter that does not wait for the cooldown to run out.
TransmitNowIgnoringCooldown(cooldown, fifo) == fifo # <<>>

\* A transmitter that holds the last byte of the queue back.
TransmitNowKeepingOne(cooldown, fifo) == cooldown = 0 /\ Len(fifo) > 1

TransmitNow(cooldown, fifo) == cooldown = 0 /\ fifo # <<>>

\* A frame of eight bits: the parity bit is left out of the byte period.
CooldownReloadEightBits(cooldown, div) == cooldown + div * ClocksPerBit * (BitsPerFrame - 1)

CooldownReload(cooldown, div) == cooldown + div * ClocksPerBit * BitsPerFrame

\* A transmitter that catches up: it sends every queued byte whose byte period
\* fits in the cycles that are left.
RECURSIVE apply_ticks_catch_up(_, _, _, _)
apply_ticks_catch_up(cooldown, fifo, div, cycles) ==
    LET cd == CooldownAfterTicks(cooldown, cycles)
        left == Max(0, cycles - cooldown)
    IN  IF TransmitNow(cd, fifo)
        THEN LET rest == IF left > 0
                         THEN apply_ticks_catch_up(CooldownReload(cd, div), Tail(fifo), div, left)
                         ELSE [cooldown |-> CooldownReload(cd, div), fifo |-> Tail(fifo),
                               sends |-> <<>>]
             IN [cooldown |-> rest.cooldown, fifo |-> rest.fifo,
                 sends |-> <<Head(fifo)>> \o rest.sends]
        ELSE [cooldown |-> cd, fifo |-> fifo, sends |-> <<>>]

apply_ticks(cooldown, fifo, div, cycles) ==
    LET cd == CooldownAfterTicks(cooldown, cycles) IN
    IF TransmitNow(cd, fifo)
    THEN [cooldown |-> CooldownReload(cd, div), fifo |-> Tail(fifo), sends |-> <<Head(fifo)>>]
    ELSE [cooldown |-> cd, fifo |-> fifo, sends |-> <<>>]

(***************************************************************************)
(* Uart::send_byte                                                         *)
(***************************************************************************)
FifoEnabled(f) == BitAnd(f, FCTL_FIFOEN) # 0

\* A capacity check that is off by one: a full FIFO takes one more byte.
HasRoomOffByOne(fifo, f) ==
    \/ Len(fifo) <= FifoDepth /\ FifoEnabled(f)
    \/ fifo = <<>> /\ ~FifoEnabled(f)

HasRoom(fifo, f) ==
    \/ Len(fifo) < FifoDepth /\ FifoEnabled(f)
    \/ fifo = <<>> /\ ~FifoEnabled(f)

\* As send_byte, but the byte is put at the front of the queue.
send_byte_at_front(fifo, f, value) ==
    IF HasRoom(fifo, f) THEN <<value>> \o fifo ELSE fifo

send_byte(fifo, f, value) ==
    IF HasRoom(fifo, f) THEN Append(fifo, value) ELSE fifo

(***************************************************************************)
(* Uart::maybe_fill_rx_buf, Uart::receive_byte, Uart::read_lsr.  polls     *)
(* lists what recv_fn yielded each time the call invoked it.               *)
(***************************************************************************)
\* A fill that polls recv_fn whenever the host has a byte, latched or not.
maybe_fill_rx_buf_eager(rx, host) ==
    IF rx = None \/ host # <<>>
    THEN LET r == recv_fn(host) IN [rx |-> r.val, host |-> r.host, polls |-> <<r.val>>]
    ELSE [rx |-> rx, host |-> host, polls |-> <<>>]

maybe_fill_rx_buf(rx, host) ==
    IF rx = None
    THEN LET r == recv_fn(host) IN [rx |-> r.val, host |-> r.host, polls |-> <<r.val>>]
    ELSE [rx |-> rx, host |-> host, polls |-> <<>>]

\* A read that always asks the host and forgets what was latched.
receive_byte_unlatched(rx, host) ==
    LET r == recv_fn(host)
    IN [ret |-> IF r.val # None THEN r.val[1] ELSE 0,
        rx |-> None, host |-> r.host, polls |-> <<r.val>>]

\* A read that leaves the byte in the latch.
receive_byte_keeping_latch(rx, host) ==
    LET f == maybe_fill_rx_buf(rx, host)
        maybe_data == f.rx
    IN [ret |-> IF maybe_data # None THEN maybe_data[1] ELSE 0,
        rx |-> f.rx, host |-> f.host, polls |-> f.polls]

receive_byte(rx, host) ==
    LET f == maybe_fill_rx_buf(rx, host)
        maybe_data == f.rx
    IN [ret |-> IF maybe_data # None THEN maybe_data[1] ELSE 0,
        rx |-> None, host |-> f.host, polls |-> f.polls]

\* A status whose transmitter-idle bit looks at the cooldown alone.
LsrBitsIdleByCooldown(filled, fifo, cooldown) ==
    BitOr(BitOr(IF filled # None THEN LSR_DR ELSE 0,
                IF fifo = <<>> THEN LSR_THRE ELSE 0),
          IF cooldown = 0 THEN LSR_TEMT ELSE 0)

\* A status that reports the holding register empty once the cooldown is over,
\* whatever is queued.
LsrBitsByCooldown(filled, fifo, cooldown) ==
    BitOr(BitOr(IF filled # None THEN LSR_DR ELSE 0,
                IF cooldown = 0 THEN LSR_THRE ELSE 0),
          IF fifo = <<>> /\ cooldown = 0 THEN LSR_TEMT ELSE 0)

LsrBits(filled, fifo, cooldown) ==
    BitOr(BitOr(IF filled # None THEN LSR_DR ELSE 0,
                IF fifo = <<>> THEN LSR_THRE ELSE 0),
          IF fifo = <<>> /\ cooldown = 0 THEN LSR_TEMT ELSE 0)

\* As read_lsr, but the byte it reports is not kept in the latch.
read_lsr_unlatching(rx, host, fifo, cooldown) ==
    LET f == maybe_fill_rx_buf(rx, host)
    IN [ret |-> LsrBits(f.rx, fifo, cooldown),
        rx |-> None, host |-> f.host, polls |-> f.polls]

read_lsr(rx, host, fifo, cooldown) ==
    LET f == maybe_fill_rx_buf(rx, host)
    IN [ret |-> LsrBits(f.rx, fifo, cooldown),
        rx |-> f.rx, host |-> f.host, polls |-> f.polls]

(***************************************************************************)
(* Uart::write_fctl                                                        *)
(***************************************************************************)
write_fctl(val) == val

(***************************************************************************)
(* The device after Uart::new, with a host that has nothing to give yet.   *)
(***************************************************************************)
Call(op, arg, ret, polls, sends) ==
    [op |-> op, arg |-> arg, ret |-> ret, polls |-> polls, sends |-> sends,
     waited |-> 0, due |-> 0, gap |-> 0, gapDiv |-> 0]

UartInit ==
    /\ tx_fifo = <<>>
    /\ transmit_cooldown = 0
    /\ rx_buf = None
    /\ fctl = 0
    /\ brg_div = ResetBrgDiv
    /\ ier = 0 /\ lctl = 0 /\ spr = 0
    /\ host_rx = <<>>
    /\ sent = <<>>
    /\ accepted = <<>>
    /\ offered = 0
    /\ arrived = 0
    /\ headAge = 0
    /\ headDue = 0
    /\ last = Call("new", 0, 0, <<>>, <<>>)
    /\ sinceSend = 0
    /\ sendDiv = 0
    /\ yielded = <<>>
    /\ received = <<>>

\* Nothing has been asked of the guest ABI bridge (src/src/mos.rs).
BridgeIdle ==
    /\ map = <<>>
    /\ mos_map = [tag |-> "none"]
    /\ machine = <<>>
    /\ address = 0
    /\ ptr = 0
    /\ s = <<>>
    /\ peeked = <<>>
    /\ path_pc = "idle"

Init == UartInit /\ BridgeIdle

rxVars == <<rx_buf, host_rx, arrived, yielded, received>>
txVars == <<tx_fifo, transmit_cooldown, sent, accepted, offered, headAge, headDue,
            sinceSend, sendDiv>>
regVars == <<ier, lctl, spr>>
mosVars == <<map, mos_map>>
pathVars == <<machine, address, ptr, s, peeked, path_pc>>
bridgeVars == <<mosVars, pathVars>>
uartVars == <<tx_fifo, transmit_cooldown, rx_buf, fctl, brg_div, ier, lctl, spr,
              host_rx, sent, accepted, offered, arrived, headAge, headDue, last,
              sinceSend, sendDiv, yielded, received>>

(***************************************************************************)
(* The operations.                                                         *)
(***************************************************************************)
\* The bytes among what recv_fn yielded to a call.
RECURSIVE Yields(_)
Yields(polls) ==
    IF polls = <<>> THEN <<>>
    ELSE (IF Head(polls) # None THEN Head(polls) ELSE <<>>) \o Yields(Tail(polls))

ApplyTicks(cycles) ==
    LET r == apply_ticks(transmit_cooldown, tx_fifo, brg_div, cycles) IN
    /\ transmit_cooldown' = r.cooldown
    /\ tx_fifo' = r.fifo
    /\ sent' = sent \o r.sends
    /\ headAge' = IF r.sends # <<>> \/ tx_fifo = <<>> THEN 0
                  ELSE Min(headAge + cycles, AgeCap)
    /\ headDue' = IF r.sends # <<>> /\ r.fifo # <<>> THEN r.cooldown
                  ELSE IF r.sends # <<>> THEN 0 ELSE headDue
    /\ last' = [Call("apply_ticks", cycles, 0, <<>>, r.sends) EXCEPT
                    !.waited = IF r.sends # <<>> THEN Min(headAge + cycles, AgeCap) ELSE 0,
                    !.due = IF r.sends # <<>> THEN headDue ELSE 0,
                    !.gap = IF r.sends # <<>> THEN Min(sinceSend + cycles, sendDiv * BytePeriod)
                            ELSE 0,
                    !.gapDiv = IF r.sends # <<>> THEN sendDiv ELSE 0]
    /\ sinceSend' = IF r.sends # <<>> THEN 0
                    ELSE Min(sinceSend + cycles, sendDiv * BytePeriod)
    /\ sendDiv' = IF r.sends # <<>> THEN brg_div ELSE sendDiv
    /\ UNCHANGED <<fctl, brg_div, accepted, offered>>
    /\ UNCHANGED rxVars
    /\ UNCHANGED regVars
    /\ UNCHANGED bridgeVars

SendByte(value, limit) ==
    LET fifo == send_byte(tx_fifo, fctl, value) IN
    /\ offered < limit
    /\ offered' = offered + 1
    /\ tx_fifo' = fifo
    /\ accepted' = IF fifo # tx_fifo THEN Append(accepted, value) ELSE accepted
    /\ headAge' = IF tx_fifo = <<>> THEN 0 ELSE headAge
    /\ headDue' = IF tx_fifo = <<>> THEN 0 ELSE headDue
    /\ last' = Call("send_byte", value, 0, <<>>, <<>>)
    /\ UNCHANGED <<transmit_cooldown, sent, fctl, brg_div, sinceSend, sendDiv>>
    /\ UNCHANGED rxVars
    /\ UNCHANGED regVars
    /\ UNCHANGED bridgeVars

ReceiveByte ==
    LET r == receive_byte(rx_buf, host_rx) IN
    /\ rx_buf' = r.rx
    /\ host_rx' = r.host
    /\ last' = Call("receive_byte", 0, r.ret, r.polls, <<>>)
    /\ yielded' = yielded \o Yields(r.polls)
    /\ received' = IF rx_buf # None \/ Yields(r.polls) # <<>>
                   THEN Append(received, r.ret) ELSE received
    /\ UNCHANGED <<arrived, fctl, brg_div>>
    /\ UNCHANGED txVars
    /\ UNCHANGED regVars
    /\ UNCHANGED bridgeVars

ReadLsr ==
    LET r == read_lsr(rx_buf, host_rx, tx_fifo, transmit_cooldown) IN
    /\ rx_buf' = r.rx
    /\ host_rx' = r.host
    /\ last' = Call("read_lsr", 0, r.ret, r.polls, <<>>)
    /\ yielded' = yielded \o Yields(r.polls)
    /\ UNCHANGED <<arrived, received, fctl, brg_div>>
    /\ UNCHANGED txVars
    /\ UNCHANGED regVars
    /\ UNCHANGED bridgeVars

\* A write that cuts the queue down to the capacity the new value selects.
WriteFctlResizing(val) ==
    /\ fctl' = write_fctl(val)
    /\ tx_fifo' = IF FifoEnabled(val) THEN tx_fifo ELSE SubSeq(tx_fifo, 1, Min(1, Len(tx_fifo)))
    /\ last' = Call("write_fctl", val, 0, <<>>, <<>>)
    /\ UNCHANGED <<brg_div, transmit_cooldown, sent, accepted, offered, headAge, headDue,
                   sinceSend, sendDiv>>
    /\ UNCHANGED rxVars
    /\ UNCHANGED regVars
    /\ UNCHANGED bridgeVars

WriteFctl(val) ==
    /\ fctl' = write_fctl(val)
    /\ last' = Call("write_fctl", val, 0, <<>>, <<>>)
    /\ UNCHANGED brg_div
    /\ UNCHANGED txVars
    /\ UNCHANGED rxVars
    /\ UNCHANGED regVars
    /\ UNCHANGED bridgeVars

\* brg_div is a public field: the register decoder assigns it.
WriteBrgDiv(val) ==
    /\ brg_div' = val
    /\ last' = Call("write_brg_div", val, 0, <<>>, <<>>)
    /\ UNCHANGED fctl
    /\ UNCHANGED txVars
    /\ UNCHANGED rxVars
    /\ UNCHANGED regVars
    /\ UNCHANGED bridgeVars

\* The host gets a byte ready for recv_fn to yield.
HostData(b) ==
    /\ arrived < MaxHostBytes
    /\ arrived' = arrived + 1
    /\ host_rx' = Append(host_rx, b)
    /\ last' = Call("host_data", b, 0, <<>>, <<>>)
    /\ UNCHANGED <<rx_buf, yielded, received, fctl, brg_div>>
    /\ UNCHANGED txVars
    /\ UNCHANGED regVars
    /\ UNCHANGED bridgeVars

(***************************************************************************)
(* Spec: the transmit path and the registers, the calls in any order, the  *)
(* clock advancing by nothing, by a byte period or by several.  The host   *)
(* has nothing to give, so read_lsr polls recv_fn in vain.                 *)
(***************************************************************************)
Next ==
    \/ \E c \in Cycles : ApplyTicks(c)
    \/ \E v \in TxBytes : SendByte(v, MaxOffers)
    \/ ReadLsr
    \/ \E f \in FctlValues : WriteFctl(f)
    \/ \E d \in Divisors : WriteBrgDiv(d)

Spec == Init /\ [][Next]_vars

(***************************************************************************)
(* SpecRx: the receive path, the host making bytes available at any time,  *)
(* beside a transmitter that is given one byte at a time.                  *)
(***************************************************************************)
NextRx ==
    \/ \E b \in RxBytes : HostData(b)
    \/ ReceiveByte
    \/ ReadLsr
    \/ SendByte(FillByte, MaxOffers)
    \/ \E c \in Cycles : ApplyTicks(c)

SpecRx == Init /\ [][NextRx]_vars

(***************************************************************************)
(* SpecTime: the transmit path with the clock advancing one cycle at a     *)
(* time.                                                                   *)
(***************************************************************************)
NextTime ==
    \/ ApplyTicks(1)
    \/ SendByte(FillByte, MaxTimeOffers)
    \/ WriteFctl(FCTL_FIFOEN)
    \/ WriteBrgDiv(1)

SpecTime == Init /\ [][NextTime]_vars

(***************************************************************************)
(* SpecFill: the transmit FIFO filled to its depth, one byte value.        *)
(***************************************************************************)
NextFill ==
    \/ SendByte(FillByte, MaxFillOffers)
    \/ \E f \in FctlValues : WriteFctl(f)
    \/ ApplyTicks(LongTicks)

SpecFill == Init /\ [][NextFill]_vars

(***************************************************************************)
(* SpecLive: the transmit path with a clock that keeps running: apply_ticks*)
(* is called with a cycle count of at least 1 again and again, whatever    *)
(* else is called in between.                                              *)
(***************************************************************************)
Tick == \E c \in RunningCycles : ApplyTicks(c)

NextLive ==
    \/ Tick
    \/ ApplyTicks(0)
    \/ \E v \in TxBytes : SendByte(v, MaxLiveOffers)
    \/ ReadLsr
    \/ \E f \in {0, FCTL_FIFOEN} : WriteFctl(f)
    \/ \E d \in Divisors : WriteBrgDiv(d)

SpecLive == Init /\ [][NextLive]_vars /\ WF_vars(Tick)

(***************************************************************************)
(* The guest ABI bridge (src/src/mos.rs): the addresses of the MOS         *)
(* filesystem routines, and strings read from guest memory.                *)
(***************************************************************************)
\* The fields of struct MosMap, in the order of their declaration.
MosMapFields ==
    <<"f_chdir", "_f_chdrive", "f_close", "f_closedir", "_f_getcwd",
      "_f_getfree", "f_getlabel", "f_gets", "f_lseek", "f_mkdir",
      "f_mount", "f_open", "f_opendir", "_f_printf", "f_putc",
      "_f_puts", "f_read", "f_readdir", "f_rename", "_f_setlabel",
      "f_stat", "_f_sync", "_f_truncate", "f_unlink", "f_write">>

FieldSet == {MosMapFields[i] : i \in 1 .. Len(MosMapFields)}

\* MosMap::default(): every address 0.
MosMapDefault == [f \in FieldSet |-> 0]

MissingSymbol == "Missing MOS FS symbol in symbol map"

Ok(v) == [tag |-> "Ok", val |-> v]
Err(e) == [tag |-> "Err", err |-> e]

\* As Assignments, but f_read is looked up under the name of f_readdir.
AssignmentsCrossed ==
    <<[field |-> "f_chdir", symbol |-> "_f_chdir"],
      [field |-> "_f_chdrive", symbol |-> "_f_chdrive"],
      [field |-> "f_close", symbol |-> "_f_close"],
      [field |-> "f_closedir", symbol |-> "_f_closedir"],
      [field |-> "_f_getcwd", symbol |-> "_f_getcwd"],
      [field |-> "_f_getfree", symbol |-> "_f_getfree"],
      [field |-> "f_getlabel", symbol |-> "_f_getlabel"],
      [field |-> "f_gets", symbol |-> "_f_gets"],
      [field |-> "f_lseek", symbol |-> "_f_lseek"],
      [field |-> "f_mkdir", symbol |-> "_f_mkdir"],
      [field |-> "f_mount", symbol |-> "_f_mount"],
      [field |-> "f_open", symbol |-> "_f_open"],
      [field |-> "f_opendir", symbol |-> "_f_opendir"],
      [field |-> "_f_printf", symbol |-> "_f_printf"],
      [field |-> "f_putc", symbol |-> "_f_putc"],
      [field |-> "_f_puts", symbol |-> "_f_puts"],
      [field |-> "f_read", symbol |-> "_f_readdir"],
      [field |-> "f_readdir", symbol |-> "_f_readdir"],
      [field |-> "f_rename", symbol |-> "_f_rename"],
      [field |-> "_f_setlabel", symbol |-> "_f_setlabel"],
      [field |-> "f_stat", symbol |-> "_f_stat"],
      [field |-> "_f_sync", symbol |-> "_f_sync"],
      [field |-> "_f_truncate", symbol |-> "_f_truncate"],
      [field |-> "f_unlink", symbol |-> "_f_unlink"],
      [field |-> "f_write", symbol |-> "_f_write"]>>

\* The assignments of from_symbol_map in their order: the field written and the
\* symbol looked up for it.
Assignments ==
    <<[field |-> "f_chdir", symbol |-> "_f_chdir"],
      [field |-> "_f_chdrive", symbol |-> "_f_chdrive"],
      [field |-> "f_close", symbol |-> "_f_close"],
      [field |-> "f_closedir", symbol |-> "_f_closedir"],
      [field |-> "_f_getcwd", symbol |-> "_f_getcwd"],
      [field |-> "_f_getfree", symbol |-> "_f_getfree"],
      [field |-> "f_getlabel", symbol |-> "_f_getlabel"],
      [field |-> "f_gets", symbol |-> "_f_gets"],
      [field |-> "f_lseek", symbol |-> "_f_lseek"],
      [field |-> "f_mkdir", symbol |-> "_f_mkdir"],
      [field |-> "f_mount", symbol |-> "_f_mount"],
      [field |-> "f_open", symbol |-> "_f_open"],
      [field |-> "f_opendir", symbol |-> "_f_opendir"],
      [field |-> "_f_printf", symbol |-> "_f_printf"],
      [field |-> "f_putc", symbol |-> "_f_putc"],
      [field |-> "_f_puts", symbol |-> "_f_puts"],
      [field |-> "f_read", symbol |-> "_f_read"],
      [field |-> "f_readdir", symbol |-> "_f_readdir"],
      [field |-> "f_rename", symbol |-> "_f_rename"],
      [field |-> "_f_setlabel", symbol |-> "_f_setlabel"],
      [field |-> "f_stat", symbol |-> "_f_stat"],
      [field |-> "_f_sync", symbol |-> "_f_sync"],
      [field |-> "_f_truncate", symbol |-> "_f_truncate"],
      [field |-> "f_unlink", symbol |-> "_f_unlink"],
      [field |-> "f_write", symbol |-> "_f_write"]>>

\* from_symbol_map from its i-th assignment on, mm being the map built so far:
\* `?` returns the error at the first symbol map.get does not find.
RECURSIVE from_symbol_map_from(_, _, _)
from_symbol_map_from(m, mm, i) ==
    IF i > Len(Assignments) THEN Ok(mm)
    ELSE LET a == Assignments[i]
         IN IF a.symbol \notin DOMAIN m THEN Err(MissingSymbol)
            ELSE from_symbol_map_from(m, [mm EXCEPT ![a.field] = m[a.symbol]], i + 1)

\* As from_symbol_map, but the first field is left at its default.
from_symbol_map_after_first(m) == from_symbol_map_from(m, MosMapDefault, 2)

from_symbol_map(m) == from_symbol_map_from(m, MosMapDefault, 1)

\* The addresses of MOS 1.03.
MOS_103_MAP ==
    "f_chdir" :> 33458 @@
    "_f_chdrive" :> 33402 @@
    "f_close" :> 33323 @@
    "f_closedir" :> 35675 @@
    "_f_getcwd" :> 33649 @@
    "_f_getfree" :> 36072 @@
    "f_getlabel" :> 38934 @@
    "f_gets" :> 40081 @@
    "f_lseek" :> 34320 @@
    "f_mkdir" :> 37622 @@
    "f_mount" :> 29431 @@
    "f_open" :> 29580 @@
    "f_opendir" :> 35410 @@
    "_f_printf" :> 40721 @@
    "f_putc" :> 40590 @@
    "_f_puts" :> 40644 @@
    "f_read" :> 30814 @@
    "f_readdir" :> 35730 @@
    "f_rename" :> 38241 @@
    "_f_setlabel" :> 39387 @@
    "f_stat" :> 35925 @@
    "_f_sync" :> 33045 @@
    "_f_truncate" :> 36728 @@
    "f_unlink" :> 37146 @@
    "f_write" :> 31760

\* The FatFs routines MOS exports, by their C names.
Routines ==
    <<"f_chdir", "f_chdrive", "f_close", "f_closedir", "f_getcwd",
      "f_getfree", "f_getlabel", "f_gets", "f_lseek", "f_mkdir",
      "f_mount", "f_open", "f_opendir", "f_printf", "f_putc",
      "f_puts", "f_read", "f_readdir", "f_rename", "f_setlabel",
      "f_stat", "f_sync", "f_truncate", "f_unlink", "f_write">>

RoutineSet == {Routines[i] : i \in 1 .. Len(Routines)}

\* The routines whose field of MosMap is marked unused by a leading underscore.
UnusedRoutines ==
    {"f_chdrive", "f_getcwd", "f_getfree", "f_printf", "f_puts", "f_setlabel",
     "f_sync", "f_truncate"}

\* The field of MosMap that holds the address of a routine.
FieldName(r) == IF r \in UnusedRoutines THEN "_" \o r ELSE r

\* The symbol the linker gives a C routine, as a symbol file lists it.
SymbolName(r) == "_" \o r

\* A symbol the bridge has no use for.
OtherSymbol == "_main"

\* The sets of at most k routines.
RECURSIVE RoutineSetsUpTo(_)
RoutineSetsUpTo(k) ==
    IF k = 0 THEN {{}}
    ELSE LET smaller == RoutineSetsUpTo(k - 1)
         IN smaller \cup {m \cup {r} : m \in smaller, r \in RoutineSet}

\* Where a symbol file may put a routine: where MOS 1.03 has it, or at an address
\* that tells the routines apart by their position in the list alone.
Placements == {"mos103", "position"}

AddressAt(placement, r) ==
    IF placement = "mos103" THEN MOS_103_MAP[FieldName(r)]
    ELSE CHOOSE i \in 1 .. Len(Routines) : Routines[i] = r

\* The symbol table that lists the routines of `present` at the addresses of
\* `placement`, and the other symbol if `other`.
SymbolTable(present, placement, other) ==
    LET required == {SymbolName(r) : r \in present}
        names == required \cup (IF other THEN {OtherSymbol} ELSE {})
    IN [sym \in names |->
            IF sym = OtherSymbol THEN 0
            ELSE AddressAt(placement, CHOOSE r \in present : SymbolName(r) = sym)]

\* The symbol tables from_symbol_map is given: complete, or lacking up to
\* MaxMissing of the routines.
SymbolMaps ==
    {SymbolTable(RoutineSet \ missing, placement, other) :
        missing \in RoutineSetsUpTo(MaxMissing), placement \in Placements,
        other \in BOOLEAN}

\* MosMap::from_symbol_map(map) is called and returns.
Resolve ==
    /\ mos_map.tag = "none"
    /\ mos_map' = from_symbol_map(map)
    /\ UNCHANGED <<map, pathVars, uartVars>>

\* As Terminators, but a carriage return is taken for a byte of the string.
TerminatorsWithoutCR == {0, 10}

\* The bytes that end a path string: NUL, line feed, carriage return.
Terminators == {0, 10, 13}

\* The bytes guest memory holds: the terminators and two others.
PathBytes == {0, 10, 13, 72, 73}

\* The guest addresses modelled.
Addresses == 0 .. MemSize - 1

\* Machine::peek
peek(mem, a) == mem[a]

\* get_mos_path_string(machine, address) is entered: s is empty, ptr is address.
GetMosPathString ==
    /\ path_pc = "idle"
    /\ s' = <<>>
    /\ ptr' = address
    /\ path_pc' = "loop"
    /\ UNCHANGED <<machine, address, peeked, mosVars, uartVars>>

\* One turn of its loop: the byte at ptr is peeked; a terminator breaks out of the
\* loop and s is returned, any other byte is pushed and ptr moves on.  A ptr that
\* leaves the addresses modelled ends the model's account of the call.
PathLoop ==
    /\ path_pc = "loop"
    /\ peeked' = Append(peeked, ptr)
    /\ IF peek(machine, ptr) \in Terminators
       THEN /\ path_pc' = "done"
            /\ UNCHANGED <<s, ptr>>
       ELSE /\ s' = Append(s, peek(machine, ptr))
            /\ ptr' = ptr + 1
            /\ path_pc' = IF ptr + 1 \in Addresses THEN "loop" ELSE "beyond"
    /\ UNCHANGED <<machine, address, mosVars, uartVars>>

(***************************************************************************)
(* SpecMos: from_symbol_map applied to a symbol table that is complete or  *)
(* lacks some of the routines.                                             *)
(***************************************************************************)
InitMos ==
    /\ UartInit
    /\ map \in SymbolMaps
    /\ mos_map = [tag |-> "none"]
    /\ machine = <<>>
    /\ address = 0
    /\ ptr = 0
    /\ s = <<>>
    /\ peeked = <<>>
    /\ path_pc = "idle"

NextMos == Resolve

SpecMos == InitMos /\ [][NextMos]_vars

(***************************************************************************)
(* SpecPath: get_mos_path_string applied to any memory content and start   *)
(* address; the call, once made, runs on.                                  *)
(***************************************************************************)
InitPath ==
    /\ UartInit
    /\ map = <<>>
    /\ mos_map = [tag |-> "none"]
    /\ machine \in [Addresses -> PathBytes]
    /\ address \in Addresses
    /\ ptr = 0
    /\ s = <<>>
    /\ peeked = <<>>
    /\ path_pc = "idle"

NextPath ==
    \/ GetMosPathString
    \/ PathLoop

SpecPath == InitPath /\ [][NextPath]_vars /\ WF_vars(NextPath)

(***************************************************************************)
(* What the claims are stated with.                                        *)
(***************************************************************************)
\* The capacity the FIFO-enable bit of a FCR value selects.
CapacityOf(f) == IF f % 2 = 1 THEN FifoDepth ELSE 1

\* The value read_lsr would return if it were called now.
LsrNow == read_lsr(rx_buf, host_rx, tx_fifo, transmit_cooldown).ret

HasBit(v, bit) == BitAnd(v, bit) = bit

(***************************************************************************)
(* C1, as claimed: in every state the transmit queue is no longer than the *)
(* capacity the FIFO-enable bit of FCR selects, 16 with the bit set and 1  *)
(* with it clear.                                                          *)
(***************************************************************************)
C1_QueueWithinSelectedCapacity == Len(tx_fifo) <= CapacityOf(fctl)

(***************************************************************************)
(* C1, amended: the transmit queue is never longer than 16, and no         *)
(* send_byte call makes it longer than the capacity the FIFO-enable bit    *)
(* selects at the time of the call: below that capacity the byte is        *)
(* appended, at or above it the byte is dropped and the queue is left as   *)
(* it was.  (A queue filled in FIFO mode stays longer than 1 after the bit *)
(* is cleared, until it drains.)                                           *)
(***************************************************************************)
C1_EnqueueRespectsCapacity ==
    /\ [](Len(tx_fifo) <= FifoDepth)
    /\ [][offered' # offered =>
            /\ last'.op = "send_byte"
            /\ tx_fifo' = IF Len(tx_fifo) < CapacityOf(fctl)
                          THEN Append(tx_fifo, last'.arg)
                          ELSE tx_fifo
            /\ sent' = sent]_vars

\* The seventeenth byte in a row was offered to a full FIFO and dropped.
C1_DroppedAtFullFifo ==
    /\ last.op = "send_byte"
    /\ Len(tx_fifo) = FifoDepth
    /\ Len(accepted) = FifoDepth
    /\ offered = FifoDepth + 1
    /\ sent = <<>>

(***************************************************************************)
(* C2, as claimed: each accepted byte is given to send_fn exactly once,    *)
(* and when it is, at least divisor * 16 * 9 cycles have been applied      *)
(* since it became the head of the transmit queue.                         *)
(***************************************************************************)
C2_SentAfterFullBytePeriod ==
    /\ accepted = sent \o tx_fifo
    /\ last.sends # <<>> => last.waited >= brg_div * ClocksPerBit * BitsPerFrame

(***************************************************************************)
(* C2, amended: each accepted byte is given to send_fn exactly once, in    *)
(* the apply_ticks call that finds it at the head with the cooldown run    *)
(* out: the accepted bytes are the sent bytes followed by the queued ones, *)
(* a head byte never outlives a call that leaves the cooldown at zero, and *)
(* no head byte waits longer than the largest cooldown.  A byte that       *)
(* became the head when its predecessor was sent waits at least the        *)
(* cooldown loaded by that send (that divisor * 16 * 9); a byte queued on  *)
(* an empty queue is sent as soon as the cooldown left over is used up, by *)
(* the next call when the transmitter is idle.                             *)
(***************************************************************************)
C2_SentOnceWhenCooldownExpires ==
    /\ [](accepted = sent \o tx_fifo)
    /\ [](tx_fifo # <<>> /\ transmit_cooldown = 0 => headAge = 0)
    /\ [](tx_fifo # <<>> => headAge + transmit_cooldown <= MaxDivisor * BytePeriod)
    /\ [](last.sends # <<>> => last.waited >= last.due)
    /\ [][last'.op = "apply_ticks" =>
            last'.sends = IF Max(0, transmit_cooldown - last'.arg) = 0 /\ tx_fifo # <<>>
                          THEN <<Head(tx_fifo)>> ELSE <<>>]_vars

\* A byte that became the head when its predecessor was sent has been sent in
\* turn, one cycle at a time, after exactly the cooldown of that send.
C2_SecondByteSentWhenDue ==
    /\ last.op = "apply_ticks" /\ last.arg = 1
    /\ last.sends # <<>>
    /\ last.due > 0 /\ last.waited = last.due
    /\ Len(sent) >= 2

(***************************************************************************)
(* C3: the value read_lsr returns has the transmit-empty bit (0x20) clear  *)
(* exactly while some accepted byte has not yet been given to send_fn: it  *)
(* is 0 from the moment a byte is queued on an empty queue until the call  *)
(* that sends it, and 1 from that call on until the next byte is accepted. *)
(***************************************************************************)
C3_TransmitEmptyFollowsSend ==
    /\ HasBit(LsrNow, LSR_THRE) <=> (sent = accepted)
    /\ (last.op = "apply_ticks" /\ last.sends # <<>> /\ tx_fifo = <<>>)
          => HasBit(LsrNow, LSR_THRE)
    /\ (last.op = "send_byte" /\ accepted # sent) => ~HasBit(LsrNow, LSR_THRE)

\* A byte is waiting, part of the cooldown has passed, and the bit reads 0.
C3_WaitingByteReadsNotEmpty ==
    /\ Len(accepted) = Len(sent) + 1
    /\ headAge > 0 /\ transmit_cooldown > 0
    /\ ~HasBit(LsrNow, LSR_THRE)

(***************************************************************************)
(* C4, as claimed: of two receive_byte calls in a row, the first of which  *)
(* delivers the only byte the host has, the first returns that byte, the   *)
(* second returns 0, and recv_fn is invoked at most once during the pair.  *)
(***************************************************************************)
\* A receive_byte call that had a byte to return: latched before, or polled.
Delivered(call) == call.polls = <<>> \/ call.polls[1] # None

\* This step is the second of two receive_byte calls in a row, the first of
\* which took the last byte the host had.
SecondOfPair ==
    /\ last.op = "receive_byte" /\ Delivered(last) /\ host_rx = <<>>
    /\ last'.op = "receive_byte"

C4_OnePollForThePair ==
    [][SecondOfPair =>
         /\ last.polls # <<>> => last.ret = last.polls[1][1]
         /\ last'.ret = 0
         /\ Len(last.polls) + Len(last'.polls) <= 1]_vars

(***************************************************************************)
(* C4, amended: the first call returns the delivered byte, the second      *)
(* returns 0 and leaves the latch empty, and recv_fn is invoked at most    *)
(* once during each call: the second call polls it once and gets None, the *)
(* first polls it once unless the byte was already latched, so that the    *)
(* pair polls it twice when the latch was empty at its start.              *)
(***************************************************************************)
C4_OnePollForEachCall ==
    [][SecondOfPair =>
         /\ last.polls # <<>> => last.ret = last.polls[1][1]
         /\ Len(last.polls) <= 1
         /\ last'.ret = 0
         /\ last'.polls = <<None>>
         /\ rx_buf' = None]_vars

\* The first call of such a pair has polled recv_fn and returned the one byte
\* the host had: whatever call comes next finds the host empty.
C4_FirstCallTookTheOnlyByte ==
    /\ last.op = "receive_byte"
    /\ last.polls = <<Some(90)>> /\ last.ret = 90
    /\ arrived = 1 /\ host_rx = <<>> /\ rx_buf = None

(***************************************************************************)
(* C5, as claimed: apply_ticks(0) changes nothing and does not invoke      *)
(* send_fn, in any state.                                                  *)
(***************************************************************************)
ZeroTicks == last'.op = "apply_ticks" /\ last'.arg = 0

C5_ZeroTicksIsNoOp ==
    [][ZeroTicks =>
         /\ last'.sends = <<>>
         /\ UNCHANGED <<tx_fifo, transmit_cooldown, rx_buf, fctl, brg_div,
                        ier, lctl, spr, host_rx, sent>>]_vars

(***************************************************************************)
(* C5, amended: apply_ticks(0) changes nothing and does not invoke send_fn *)
(* unless the cooldown is zero and the transmit queue is not empty; then   *)
(* it sends the head of the queue and loads the cooldown, as any other     *)
(* apply_ticks call does.                                                  *)
(***************************************************************************)
C5_ZeroTicksIsNoOpUnlessDue ==
    [][ZeroTicks =>
         /\ UNCHANGED <<rx_buf, fctl, brg_div, ier, lctl, spr, host_rx>>
         /\ IF transmit_cooldown = 0 /\ tx_fifo # <<>>
            THEN /\ last'.sends = <<Head(tx_fifo)>>
                 /\ sent' = Append(sent, Head(tx_fifo))
                 /\ tx_fifo' = Tail(tx_fifo)
                 /\ transmit_cooldown' = brg_div * 16 * 9
            ELSE /\ last'.sends = <<>>
                 /\ UNCHANGED <<tx_fifo, transmit_cooldown, sent>>]_vars

\* apply_ticks(0) was called with a byte queued and the cooldown running, and
\* sent nothing.
C5_ZeroTicksWhileCoolingDown ==
    /\ last.op = "apply_ticks" /\ last.arg = 0 /\ last.sends = <<>>
    /\ tx_fifo # <<>> /\ transmit_cooldown > 0

(***************************************************************************)
(* C6: one apply_ticks call invokes send_fn at most once and takes at most *)
(* one byte off the transmit queue, however many byte periods its cycles   *)
(* span and however many bytes are queued.                                 *)
(***************************************************************************)
C6_AtMostOneSendPerCall ==
    /\ [](last.op = "apply_ticks" => Len(last.sends) <= 1)
    /\ [][last'.op = "apply_ticks" =>
            /\ Len(tx_fifo') >= Len(tx_fifo) - 1
            /\ Len(sent') <= Len(sent) + 1]_vars

\* A call whose cycles span more than two byte periods sent one byte and left
\* another queued.
C6_LongCallLeavesBacklog ==
    /\ last.op = "apply_ticks" /\ last.sends # <<>>
    /\ brg_div >= 1 /\ last.arg > 2 * brg_div * 16 * 9
    /\ tx_fifo # <<>>

(***************************************************************************)
(* C7: the data-ready bit (0x01) of the value a read_lsr call returns is 1 *)
(* if and only if the receive latch held a byte when the call started or   *)
(* recv_fn, polled during the call, yielded Some; when the latch held a    *)
(* byte, recv_fn is not polled and the host keeps what it has.             *)
(***************************************************************************)
C7_DataReadyIffLatchedOrPolled ==
    [][last'.op = "read_lsr" =>
         /\ HasBit(last'.ret, 1) <=>
               (rx_buf # None \/ \E i \in DOMAIN last'.polls : last'.polls[i] # None)
         /\ rx_buf # None => (last'.polls = <<>> /\ host_rx' = host_rx /\ rx_buf' = rx_buf)
         /\ rx_buf = None => Len(last'.polls) = 1]_vars

\* read_lsr reported data ready from the latch, without polling, while the host
\* had another byte to give.
C7_ReadyFromLatchWithoutPoll ==
    /\ last.op = "read_lsr" /\ HasBit(last.ret, 1)
    /\ last.polls = <<>>
    /\ host_rx # <<>>

(***************************************************************************)
(* C8: the value read_lsr returns has bit 0x20 set exactly when the        *)
(* transmit queue is empty, bit 0x40 set exactly when the queue is empty   *)
(* and the cooldown is zero, and no bit set other than 0x01, 0x20, 0x40;   *)
(* so 0x40 is never set without 0x20.                                      *)
(***************************************************************************)
TxStatusRight(v) ==
    /\ HasBit(v, 32) <=> (tx_fifo = <<>>)
    /\ HasBit(v, 64) <=> (tx_fifo = <<>> /\ transmit_cooldown = 0)
    /\ BitAnd(v, 255 - (1 + 32 + 64)) = 0
    /\ v \in 0 .. 255
    /\ HasBit(v, 64) => HasBit(v, 32)

C8_LineStatusBits ==
    /\ TxStatusRight(LsrNow)
    /\ last.op = "read_lsr" => TxStatusRight(last.ret)

\* read_lsr returned 0x21: data ready, the queue empty, the cooldown running.
C8_EmptyButNotIdle ==
    /\ last.op = "read_lsr" /\ last.ret = 33
    /\ transmit_cooldown > 0

(***************************************************************************)
(* C9: write_fctl stores the byte and leaves the transmit queue, the       *)
(* cooldown and the receive latch as they were, also when it clears the    *)
(* FIFO-enable bit with more than one byte queued; the bytes queued are    *)
(* still sent, each by the apply_ticks call that finds the cooldown run    *)
(* out, and a send_byte call is checked against the capacity the bit       *)
(* selects at the time of that call.                                       *)
(***************************************************************************)
C9_FifoControlKeepsBacklog ==
    /\ [][last'.op = "write_fctl" =>
            /\ fctl' = last'.arg
            /\ UNCHANGED <<tx_fifo, transmit_cooldown, rx_buf, host_rx, brg_div,
                           ier, lctl, spr, sent, accepted>>]_vars
    /\ [][(last'.op = "apply_ticks" /\ tx_fifo # <<>>
             /\ Max(0, transmit_cooldown - last'.arg) = 0) =>
            /\ last'.sends = <<Head(tx_fifo)>>
            /\ tx_fifo' = Tail(tx_fifo)]_vars
    /\ [][last'.op = "send_byte" =>
            tx_fifo' = IF Len(tx_fifo) < CapacityOf(fctl)
                       THEN Append(tx_fifo, last'.arg) ELSE tx_fifo]_vars
    /\ [](accepted = sent \o tx_fifo)

\* With the FIFO-enable bit cleared over a backlog, a byte of the backlog was
\* sent and another is still queued.
C9_BacklogDrainsWithFifoOff ==
    /\ fctl % 2 = 0
    /\ last.op = "apply_ticks" /\ last.sends # <<>>
    /\ tx_fifo # <<>>

(***************************************************************************)
(* C10: the transmit cooldown is never negative, and right after an        *)
(* apply_ticks call that invoked send_fn it is divisor * 16 * 9, for the   *)
(* divisor register's value at that call.                                  *)
(***************************************************************************)
C10_CooldownReloaded ==
    /\ transmit_cooldown >= 0
    /\ (last.op = "apply_ticks" /\ last.sends # <<>>)
          => transmit_cooldown = brg_div * 16 * 9

\* A byte was sent after the divisor had been written to 1: the cooldown is 144.
C10_ReloadedFromWrittenDivisor ==
    /\ last.op = "apply_ticks" /\ last.sends # <<>>
    /\ brg_div = 1 /\ transmit_cooldown = 144

(***************************************************************************)
(* C11: receive_byte returns the latched byte when the latch holds one,    *)
(* else the byte recv_fn yields when polled, else 0; after every           *)
(* receive_byte call the receive latch is empty.                           *)
(***************************************************************************)
C11_ReceiveReturnsByteOrZero ==
    /\ [][last'.op = "receive_byte" =>
            /\ last'.ret = IF rx_buf # None THEN rx_buf[1]
                           ELSE IF host_rx # <<>> THEN Head(host_rx)
                           ELSE 0
            /\ rx_buf' = None]_vars
    /\ [](last.op = "receive_byte" => rx_buf = None)

\* receive_byte returned the byte read_lsr had latched, without polling, and
\* left the latch empty.
C11_LatchedByteReturned ==
    /\ last.op = "receive_byte" /\ last.polls = <<>> /\ last.ret = 90
    /\ rx_buf = None

(***************************************************************************)
(* C12.  MosMap::from_symbol_map returns the missing-symbol error, and no  *)
(* map, for every table that lacks exactly one of the 25 routines; for a   *)
(* table that has them all it returns a map in which the field of each     *)
(* routine holds the address the table gives for its symbol.               *)
(***************************************************************************)
\* The routines the table given lacks.
Lacking == {r \in RoutineSet : SymbolName(r) \notin DOMAIN map}

C12_ResolveAllOrNothing ==
    mos_map.tag # "none" =>
        /\ Cardinality(RoutineSet) = 25
        /\ Cardinality(Lacking) = 1 => mos_map = Err(MissingSymbol)
        /\ Lacking = {} =>
               /\ mos_map.tag = "Ok"
               /\ DOMAIN mos_map.val = {FieldName(r) : r \in RoutineSet}
               /\ \A r \in RoutineSet : mos_map.val[FieldName(r)] = map[SymbolName(r)]

\* The table lacks only the symbol looked up last, and the error is returned.
C12_LastSymbolMissing ==
    /\ mos_map = Err(MissingSymbol)
    /\ Lacking = {"f_write"}
    /\ OtherSymbol \in DOMAIN map

(***************************************************************************)
(* C13.  Listing MOS_103_MAP as a table from symbol to address and giving  *)
(* that table to from_symbol_map yields MOS_103_MAP again: the same        *)
(* address for every routine.                                              *)
(***************************************************************************)
\* A map of addresses listed as a symbol file would list it.
SymbolTableOf(mm) ==
    [sym \in {SymbolName(r) : r \in RoutineSet} |->
        mm[FieldName(CHOOSE r \in RoutineSet : SymbolName(r) = sym)]]

C13_Mos103RoundTrip ==
    (mos_map.tag # "none" /\ map = SymbolTableOf(MOS_103_MAP)) =>
        /\ mos_map = Ok(MOS_103_MAP)
        /\ \A r \in RoutineSet : mos_map.val[FieldName(r)] = MOS_103_MAP[FieldName(r)]

\* The table of MOS 1.03 has been resolved, f_write at 0x7C10.
C13_Mos103Resolved ==
    /\ map = SymbolTableOf(MOS_103_MAP)
    /\ mos_map.tag = "Ok"
    /\ mos_map.val["f_write"] = 31760
    /\ mos_map.val["_f_chdrive"] = 33402

(***************************************************************************)
(* C14.  For every memory content and start address with a 0, 10 or 13 at  *)
(* or after the address, get_mos_path_string returns, and returns exactly  *)
(* the bytes from the address up to and excluding the first of them; the   *)
(* result holds no 0, 10 or 13, and no address beyond that first           *)
(* terminator is read.                                                     *)
(***************************************************************************)
IsTerminator(b) == b = 0 \/ b = 10 \/ b = 13

HasTerminator == \E a \in Addresses : a >= address /\ IsTerminator(machine[a])

\* The address of the first terminator at or after the start address.
FirstTerminator ==
    CHOOSE a \in Addresses :
        /\ a >= address /\ IsTerminator(machine[a])
        /\ \A b \in Addresses : (b >= address /\ b < a) => ~IsTerminator(machine[b])

C14_PathStringUpToTerminator ==
    /\ [](HasTerminator => <>(path_pc = "done"))
    /\ []((HasTerminator /\ path_pc = "done") =>
            /\ s = [i \in 1 .. FirstTerminator - address |-> machine[address + i - 1]]
            /\ \A i \in 1 .. Len(s) : ~IsTerminator(s[i]))
    /\ [](HasTerminator =>
            /\ path_pc # "beyond"
            /\ \A i \in 1 .. Len(peeked) :
                   peeked[i] >= address /\ peeked[i] <= FirstTerminator)

\* Two different bytes were returned, read from the second address on, and the
\* carriage return after them was the last byte read.
C14_TwoBytesBeforeCarriageReturn ==
    /\ path_pc = "done"
    /\ address = 1
    /\ s = <<72, 73>>
    /\ machine[3] = 13
    /\ peeked = <<1, 2, 3>>

(***************************************************************************)
(* C15.  Whatever the order of send_byte, apply_ticks and write_fctl       *)
(* calls, the bytes given to send_fn are, in order, a prefix of the bytes  *)
(* send_byte accepted: each accepted byte is sent at most once, no byte    *)
(* that was dropped is sent, and none overtakes another.                   *)
(***************************************************************************)
IsPrefix(a, b) == Len(a) <= Len(b) /\ SubSeq(b, 1, Len(a)) = a

C15_SentIsPrefixOfAccepted ==
    /\ [](IsPrefix(sent, accepted))
    /\ [][\/ sent' = sent
          \/ /\ Len(sent) < Len(accepted)
             /\ sent' = Append(sent, accepted[Len(sent) + 1])]_vars

\* Two different bytes were sent in the order they were accepted, and a byte
\* offered between them was dropped.
C15_TwoSentOneDropped ==
    /\ sent = <<65, 66>>
    /\ accepted = sent
    /\ offered > Len(accepted)

(***************************************************************************)
(* C16.  Between two consecutive invocations of send_fn, the cycles passed *)
(* to apply_ticks after the first, up to and including the call that makes *)
(* the second, add up to at least brg_div * 16 * 9, brg_div being the      *)
(* divisor at the time of the first.                                       *)
(***************************************************************************)
C16_FullPeriodBetweenSends ==
    [][(last'.op = "apply_ticks" /\ last'.sends # <<>> /\ sent # <<>>) =>
            last'.gap >= last'.gapDiv * 16 * 9]_vars

\* The second byte was sent one period of divisor 1 after the first, the divisor
\* having been raised to 2 in between.
C16_SecondSendAfterOldPeriod ==
    /\ last.op = "apply_ticks" /\ last.sends # <<>>
    /\ Len(sent) = 2
    /\ last.gapDiv = 1 /\ last.gap = 144
    /\ brg_div = 2

(***************************************************************************)
(* C17.  If apply_ticks keeps being called with at least one cycle and     *)
(* send_byte calls come to an end, every byte that was accepted is         *)
(* eventually sent, and from some point on read_lsr reports the            *)
(* transmitter empty (0x20) and idle (0x40), for good.                     *)
(***************************************************************************)
EmptyAndIdle(v) == HasBit(v, 32) /\ HasBit(v, 64)

C17_DrainsAndStaysIdle ==
    <>[](/\ sent = accepted
         /\ EmptyAndIdle(LsrNow)
         /\ last.op = "read_lsr" => EmptyAndIdle(last.ret))

\* Both bytes accepted have been sent and the cooldown of the second has run out
\* under the running clock.
C17_DrainedAndIdle ==
    /\ sent = <<65, 66>> /\ accepted = sent
    /\ last.op = "apply_ticks" /\ last.arg >= 1 /\ last.sends = <<>>
    /\ EmptyAndIdle(LsrNow)

(***************************************************************************)
(* C18.  Whatever the order of read_lsr and receive_byte calls, no byte    *)
(* received is lost or duplicated: the bytes recv_fn yielded are, in       *)
(* order, the bytes receive_byte calls returned, followed by the byte in   *)
(* the latch if there is one; and while a byte is latched recv_fn is not   *)
(* polled and the latch keeps the byte until a receive_byte call returns   *)
(* it.                                                                     *)
(***************************************************************************)
C18_NoByteLostOrDuplicated ==
    /\ [](yielded = received \o rx_buf)
    /\ [][rx_buf # None =>
            /\ last'.polls = <<>>
            /\ \/ rx_buf' = rx_buf /\ received' = received
               \/ /\ last'.op = "receive_byte"
                  /\ last'.ret = rx_buf[1]
                  /\ received' = Append(received, rx_buf[1])
                  /\ rx_buf' = None]_vars

\* Two different bytes came in; the second was latched by read_lsr and has now
\* been returned by receive_byte without another poll.
C18_LatchedByLsrThenReturned ==
    /\ last.op = "receive_byte" /\ last.polls = <<>>
    /\ Len(received) = 2 /\ received[1] # received[2]
    /\ yielded = received
    /\ rx_buf = None

====
